---- MODULE Spec2Model ----
(***************************************************************************)
(* A model of the QLP parent-sample builder                                *)
(* (scripts/tess/qlp/build_parent_sample.py, class QLP_Downloader):        *)
(* catalog construction, the fetcher, the batched download, the record    *)
(* extractor, the standardizer and the pipeline driver; and of the         *)
(* extractor and standardizer of scripts/tess/tess_lc/build_parent_sample. *)
(*                                                                         *)
(* Every method is modelled by an operator that computes what the method   *)
(* computes; a method call yields a record [exc, val]: exc = "none" and    *)
(* val the returned value, or exc the name of the exception raised.        *)
(***************************************************************************)
EXTENDS Integers, Sequences, FiniteSets, TLC

VARIABLES
    \* ---- create_sector_catalog
    sh_file,        \* the download script <sector>_fits_download_script.sh
    csv_file,       \* the target list <sector>_target_list.csv
    tiny,           \* argument tiny
    fits_dir,       \* attribute fits_dir, as the words the shell splits it into
    save_catalog,   \* argument save_catalog
    cpc,            \* position of the create_sector_catalog call
    cat_result,     \* what the call gave: [exc, val]
    catalog_file,   \* the persisted catalog <sector>_catalog.hdf5
    \* ---- batched_download
    bd_catalog,     \* argument catalog
    bpc,            \* position of the batched_download call
    bi,             \* number of the batch the loop is at (1, 2, ...)
    pool,           \* the worker pool of the running
                    \* download_sector_catalog_lightcurves call, one task per row
    results,        \* the local variable results
    bd_exc,         \* the exception batched_download raised, or "none"
    log,            \* history: the pool invocations and pauses, in order
    row_flag,       \* history: what the last completed fetch of each row returned
    \* ---- download_sector
    fits_files,     \* the .fits files under fits_dir
    shards,         \* the shard <hdf5_output_dir>/QLP/healpix=<key>/001-of-001.hdf5 of each key
    dpc,            \* position of the download_sector call
    d_catalog,      \* the local variable catalog
    n_files,        \* the local variable n_files
    tasks,          \* the worker pool of convert_fits_to_standard_format, one task per group
    d_exc,          \* the exception download_sector raised, or "none"
    trace,          \* history: the steps of the run, in order
    \* ---- save_in_standard_format called on one group
    s_variant,      \* the script the function is of: "qlp" or "tess_lc"
    s_subcatalog,   \* argument subcatalog
    spc,            \* position: "start", or how the latest call ended
    s_exc,          \* the exception the latest call raised, or "none"
    s_calls,        \* the number of calls made
    s_before,       \* history: the output file before the latest call
    s_first         \* history: the output file after the first call

catVars == <<sh_file, csv_file, save_catalog, cpc, cat_result, catalog_file>>
batchVars == <<bd_catalog, bpc, bi, pool, results, bd_exc, log, row_flag>>

driverVars == <<fits_files, shards, dpc, d_catalog, n_files, tasks, d_exc, trace>>

stdVars == <<s_variant, s_subcatalog, spc, s_exc, s_calls, s_before, s_first>>

vars == <<tiny, fits_dir, stdVars, catVars, batchVars, driverVars>>

----------------------------------------------------------------------------
(* Bounds of the model *)

\* most data lines of a download script
MaxLines == 3
\* most rows of a target list
MaxMeta == 2
\* _TINY_SIZE (100 in the source), scaled down so that truncation happens
TINY_SIZE == 2
\* _BATCH_SIZE (5000 in the source), scaled down so that several batches happen
BATCH_SIZE == 2
\* most rows of a catalog handed to batched_download
MaxRows == 4
\* most data lines of the download script of a download_sector run
DriverMaxLines == 2
\* most rows of a group handed to save_in_standard_format
MaxGroup == 3
\* most calls of save_in_standard_format on one group
MaxCalls == 2

----------------------------------------------------------------------------
(* Values *)

\* TIC identifiers of the objects of a sector
Ids == {100, 101, 102}

None == [exc |-> "none", val |-> <<>>]
Return(v) == [exc |-> "none", val |-> v]
Raise(e) == [exc |-> e, val |-> <<>>]

Absent == [exists |-> FALSE, lines |-> <<>>]
File(ls) == [exists |-> TRUE, lines |-> ls]

(* The files under fits_dir: a function from the paths that exist to what   *)
(* fits.open finds there: a light curve file (a primary header and a table  *)
(* of n rows, of whose columns the model keeps time and sap_flux), a file    *)
(* that is not a FITS file (an error page, a truncated transfer), or a FITS  *)
(* file whose table lacks a column the extractor reads.                      *)
Lightcurve(n) ==
    [kind |-> "lightcurve", time |-> [i \in 1..n |-> i],
     sap_flux |-> [i \in 1..n |-> 1000 + i], ra_obj |-> 10]
NotFits == [kind |-> "not_fits", time |-> <<>>, sap_flux |-> <<>>, ra_obj |-> 0]
NoColumn == [kind |-> "no_column", time |-> <<>>, sap_flux |-> <<>>, ra_obj |-> 10]
NoFiles == [p \in {} |-> NotFits]
WriteFile(files, path, data) ==
    [p \in DOMAIN files \cup {path} |-> IF p = path THEN data ELSE files[p]]

\* seq[0:n]
Take(seq, n) == SubSeq(seq, 1, IF n < Len(seq) THEN n ELSE Len(seq))

SeqsUpTo(S, lo, hi) == UNION {[1..n -> S] : n \in lo..hi}

(* A line of the download script, by what parse_line reads of it:          *)
(*   ntok   the number of whitespace separated tokens (line.split());      *)
(*          token 5 (parts[4]) is the quoted destination path              *)
(*   ndash  the number of '-' separated pieces of the last path segment    *)
(*   digits whether the text between the first '-' and the next '_' of     *)
(*          that segment is a numeral                                      *)
(*   tic    the value of that numeral                                      *)
(*   fp     the directory segments path_parts[1:5] of the path             *)
HeaderLine == [ntok |-> 1, ndash |-> 1, digits |-> FALSE, tic |-> 0, fp |-> ""]
WellFormedLines ==
    {[ntok |-> 5, ndash |-> 2, digits |-> TRUE, tic |-> i, fp |-> "0000/0000/0000/0100"] :
        i \in Ids}
MalformedLines ==
    { \* no path token
      [ntok |-> 4, ndash |-> 2, digits |-> TRUE, tic |-> 100, fp |-> ""],
      \* no '-' in the file name
      [ntok |-> 5, ndash |-> 1, digits |-> TRUE, tic |-> 100, fp |-> "0000/0000/0000/0100"],
      \* no numeral after '-'
      [ntok |-> 5, ndash |-> 2, digits |-> FALSE, tic |-> 100, fp |-> "0000/0000/0000/0100"] }
Lines == WellFormedLines \cup MalformedLines

\* rows of the target list: identifier and sky coordinates (degrees)
MetaRows ==
    { [TIC_ID |-> 100, RA |-> 10, DEC |-> 5],
      [TIC_ID |-> 101, RA |-> 200, DEC |-> -40],
      [TIC_ID |-> 102, RA |-> 12, DEC |-> 6] }

\* the sky pixels of the target list rows, one shard each
Pixels == {12, 16}

----------------------------------------------------------------------------
(* The parts of the state a specification does not use *)

CatIdle ==
    /\ sh_file = Absent /\ csv_file = Absent /\ save_catalog = FALSE
    /\ cpc = "idle" /\ cat_result = None /\ catalog_file = Absent

BatchIdle ==
    /\ bd_catalog = <<>>
    /\ bpc = "idle"
    /\ bi = 0
    /\ pool = <<>>
    /\ results = <<>>
    /\ bd_exc = "none"
    /\ log = <<>>
    /\ row_flag = <<>>

StdIdle ==
    /\ s_variant = "qlp"
    /\ s_subcatalog = <<>>
    /\ spc = "idle"
    /\ s_exc = "none"
    /\ s_calls = 0
    /\ s_before = Absent
    /\ s_first = Absent

DriverIdle ==
    /\ fits_files = NoFiles
    /\ shards = [h \in Pixels |-> Absent]
    /\ dpc = "idle"
    /\ d_catalog = <<>>
    /\ n_files = 0
    /\ tasks = <<>>
    /\ d_exc = "none"
    /\ trace = <<>>

----------------------------------------------------------------------------
(* Manifest parser *)

read_sh(f) == SubSeq(f.lines, 2, Len(f.lines))

parse_line(line) ==
    IF line.ntok < 5 THEN Raise("IndexError")           \* parts[4]
    ELSE IF line.ndash < 2 THEN Raise("IndexError")     \* split('-')[1]
    ELSE IF ~line.digits THEN Raise("ValueError")       \* int(TIC_ID)
    ELSE Return([TIC_ID |-> line.tic, fp |-> line.fp])

\* a parser that skips the lines that do not parse
parse_curl_commands_skip(f) ==
    IF ~f.exists THEN Raise("FileNotFoundError")
    ELSE LET lines == read_sh(f)
             good == SelectSeq(lines, LAMBDA l : parse_line(l).exc = "none")
         IN Return([i \in 1..Len(good) |-> parse_line(good[i]).val])

\* list(self.parse_line(line) for line in lines)
parse_curl_commands(f) ==
    IF ~f.exists THEN Raise("FileNotFoundError")
    ELSE LET lines == read_sh(f)
             bad == {i \in 1..Len(lines) : parse_line(lines[i]).exc # "none"}
         IN IF bad # {}
            THEN \* the generator stops at the first line that raises
                 LET first == CHOOSE i \in bad : \A k \in bad : i <= k
                 IN Raise(parse_line(lines[first]).exc)
            ELSE Return([i \in 1..Len(lines) |-> parse_line(lines[i]).val])

----------------------------------------------------------------------------
(* Catalog builder *)

\* healpy's ang2pix(nside, ra, dec, lonlat, nest): an external primitive, a
\* total deterministic function from coordinates to a pixel index
ang2pix(ra, dec) == ((dec + 90) \div 45) * 8 + (ra \div 45)

PairLess(left, p, q) ==
    \/ left[p[1]].TIC_ID < left[q[1]].TIC_ID
    \/ /\ left[p[1]].TIC_ID = left[q[1]].TIC_ID
       /\ \/ p[1] < q[1]
          \/ p[1] = q[1] /\ p[2] < q[2]

RECURSIVE SortPairs(_, _)
SortPairs(left, P) ==
    IF P = {} THEN <<>>
    ELSE LET m == CHOOSE p \in P : \A q \in P : p = q \/ PairLess(left, p, q)
         IN <<m>> \o SortPairs(left, P \ {m})

\* join_type='left': the left rows without a match are kept
join_left(left, right) ==
    LET P == {p \in (1..Len(left)) \X (0..Len(right)) :
                  IF p[2] = 0
                  THEN \A j \in 1..Len(right) : left[p[1]].TIC_ID # right[j].TIC_ID
                  ELSE left[p[1]].TIC_ID = right[p[2]].TIC_ID}
        s == SortPairs(left, P)
    IN [k \in 1..Len(s) |->
          [TIC_ID |-> left[s[k][1]].TIC_ID, fp |-> left[s[k][1]].fp,
           RA |-> IF s[k][2] = 0 THEN 0 ELSE right[s[k][2]].RA,
           DEC |-> IF s[k][2] = 0 THEN 0 ELSE right[s[k][2]].DEC]]

\* astropy.table.join(left, right, keys='TIC_ID', join_type='inner'): one
\* output row per pair of a left row and a right row with equal keys, the
\* rows sorted by the key
join(left, right) ==
    LET P == {p \in (1..Len(left)) \X (1..Len(right)) :
                  left[p[1]].TIC_ID = right[p[2]].TIC_ID}
        s == SortPairs(left, P)
    IN [k \in 1..Len(s) |->
          [TIC_ID |-> left[s[k][1]].TIC_ID, fp |-> left[s[k][1]].fp,
           RA |-> right[s[k][2]].RA, DEC |-> right[s[k][2]].DEC]]

add_healpix(cat) ==
    [k \in 1..Len(cat) |->
       [TIC_ID |-> cat[k].TIC_ID, fp |-> cat[k].fp, RA |-> cat[k].RA, DEC |-> cat[k].DEC,
        healpix |-> ang2pix(cat[k].RA, cat[k].DEC)]]

\* a truncation that keeps the last rows instead of the first
truncate_tail(cat, tiny_) ==
    IF tiny_ /\ Len(cat) > TINY_SIZE
    THEN SubSeq(cat, Len(cat) - TINY_SIZE + 1, Len(cat))
    ELSE cat

\* catalog = catalog[0:_TINY_SIZE] when tiny
truncate(cat, tiny_) == IF tiny_ THEN Take(cat, TINY_SIZE) ELSE cat

create_sector_catalog(sh, csv, tiny_) ==
    LET params == parse_curl_commands(sh)
    IN IF params.exc # "none" THEN Raise(params.exc)
       ELSE IF ~csv.exists THEN Raise("FileNotFoundError")
       ELSE Return(add_healpix(join(truncate(params.val, tiny_), csv.lines)))

----------------------------------------------------------------------------
(* Fetcher *)

\* what subprocess.run(cmd, shell=True, check=True, ...) does: the command
\* exits 0; it exits non-zero (curl reports a transfer error, curl is not
\* found by the shell), which check=True raises as CalledProcessError; or the
\* child process cannot be started (fork or pipe creation fails, no shell),
\* which raises OSError
SubprocessOutcomes == {"exit0", "CalledProcessError", "OSError"}

\* self.sector_str = f's{sector:04d}'
sector_str == "s0023"

\* the decimal digits of n >= 0
RECURSIVE Digits(_)
Digits(n) == IF n < 10 THEN <<n>> ELSE Append(Digits(n \div 10), n % 10)

\* f'{n:016d}': the decimal digits of n, zero-filled on the left to at least
\* 16 places
Format016d(n) ==
    LET d == Digits(n)
    IN IF Len(d) >= 16 THEN d ELSE [i \in 1..(16 - Len(d)) |-> 0] \o d

\* the directories fits_dir may name: one shell word, or a name with a blank
FitsDirs == {<<"fits">>, <<"my", "fits">>}

\* path = f'{sector_str}/{fp1}/{fp2}/{fp3}/{fp4}/hlsp_qlp_tess_ffi_{sector_str}-{TIC_ID:016d}_tess_v01_llc.fits'
download_path(catalog_row) ==
    [sector_dir |-> sector_str, fp |-> catalog_row.fp, stem |-> "hlsp_qlp_tess_ffi_",
     sector |-> sector_str, tic |-> Format016d(catalog_row.TIC_ID),
     suffix |-> "_tess_v01_llc.fits"]
NoPath ==
    [sector_dir |-> "", fp |-> "", stem |-> "", sector |-> "", tic |-> <<>>, suffix |-> ""]

\* os.path.join(dir, path)
os_path_join(dir, path) == [dir |-> dir, path |-> path]

\* cmd = f'curl {url} --create-dirs -o {os.path.join(self.fits_dir, path)}' is
\* run by the shell (shell=True), which splits the unquoted path at blanks:
\* the words the path becomes
shell_words(joined) ==
    [w \in 1..Len(joined.dir) |->
        [dir |-> <<joined.dir[w]>>,
         path |-> IF w = Len(joined.dir) THEN joined.path ELSE NoPath]]

\* the file curl writes to: the word that follows -o; further words are
\* taken as further urls
curl_output(catalog_row) ==
    shell_words(os_path_join(fits_dir, download_path(catalog_row)))[1]
curl_extra_urls(catalog_row) ==
    Len(shell_words(os_path_join(fits_dir, download_path(catalog_row)))) > 1

\* the outcomes of the command for a row: a word of the path taken as a url
\* names no host, curl exits non-zero
CurlOutcomes(catalog_row) ==
    IF curl_extra_urls(catalog_row) THEN SubprocessOutcomes \ {"exit0"}
    ELSE SubprocessOutcomes

\* what the server sends for a url: the light curve file, or (curl is run
\* without --fail) the body of an error response
Served == {Lightcurve(1), NotFits}
NoData == [kind |-> "none", time |-> <<>>, sap_flux |-> <<>>, ra_obj |-> 0]

get_fits_lightcurve(catalog_row, outcome) ==
    IF outcome = "exit0" THEN Return(TRUE)
    ELSE IF outcome = "CalledProcessError" THEN Return(FALSE)
    ELSE Raise(outcome)

----------------------------------------------------------------------------
(* Batch orchestrator *)

\* Python values held by the list results: a bool or a list of bools
PyBool(b) == [type |-> "bool", b |-> b, l |-> <<>>]
PyList(l) == [type |-> "list", b |-> FALSE, l |-> l]

RECURSIVE CountTrue(_)
CountTrue(seq) ==
    IF seq = <<>> THEN 0
    ELSE (IF Head(seq).b THEN 1 ELSE 0) + CountTrue(Tail(seq))

\* sum(seq): 0 + seq[0] + seq[1] + ...; int + bool is an int, int + list
\* raises TypeError
PySum(seq) ==
    IF \E i \in 1..Len(seq) : seq[i].type = "list" THEN Raise("TypeError")
    ELSE Return(CountTrue(seq))

NumBatches(n, batch_size) == (n + batch_size - 1) \div batch_size

\* a batcher that yields the full batches only
batcher_full(seq, batch_size) ==
    [k \in 1..(Len(seq) \div batch_size) |->
        [j \in 1..batch_size |->
            [at |-> (k - 1) * batch_size + j, row |-> seq[(k - 1) * batch_size + j]]]]

\* batcher(seq, batch_size): seq[pos:pos + batch_size] for pos in
\* range(0, len(seq), batch_size); the slices keep the positions in seq
batcher(seq, batch_size) ==
    [k \in 1..NumBatches(Len(seq), batch_size) |->
        LET lo == (k - 1) * batch_size + 1
            hi == IF k * batch_size < Len(seq) THEN k * batch_size ELSE Len(seq)
        IN [j \in 1..(hi - lo + 1) |-> [at |-> lo + j - 1, row |-> seq[lo + j - 1]]]]

\* Pool.imap(get_fits_lightcurve, rows): one pending task per row
NewPool(rows) ==
    [j \in 1..Len(rows) |->
        [at |-> rows[j].at, row |-> rows[j].row, state |-> "pending",
         outcome |-> "none", res |-> FALSE]]
NoPool == <<>>

\* list(pool.imap(...)) gives the results in the order of the rows once every
\* task is done; it raises when the first task that is not done has raised
PoolDone(p) == \A j \in 1..Len(p) : p[j].state = "done"
PoolRaised(p) ==
    \E j \in 1..Len(p) :
        /\ p[j].state = "raised"
        /\ \A k \in 1..(j - 1) : p[k].state = "done"
PoolFlags(p) == [j \in 1..Len(p) |-> p[j].res]

Running == bpc \in {"try", "retry", "tiny_call"}

CatalogOfSize(n) ==
    [i \in 1..n |->
        [TIC_ID |-> 99 + i, fp |-> "0000/0000/0000/0100", RA |-> 10, DEC |-> 5,
         healpix |-> ang2pix(10, 5)]]

\* the catalog create_sector_catalog builds from a script that names TIC 100
\* on two lines
DuplicateCatalog ==
    LET line == [ntok |-> 5, ndash |-> 2, digits |-> TRUE, tic |-> 100,
                 fp |-> "0000/0000/0000/0100"]
    IN create_sector_catalog(File(<<HeaderLine, line, line>>),
                             File(<<[TIC_ID |-> 100, RA |-> 10, DEC |-> 5]>>), FALSE).val

BatchInit ==
    /\ StdIdle
    /\ tiny \in BOOLEAN
    /\ fits_dir \in FitsDirs
    /\ bd_catalog \in {CatalogOfSize(n) : n \in 0..MaxRows} \cup {DuplicateCatalog}
    /\ bpc = "start"
    /\ bi = 0
    /\ pool = NoPool
    /\ results = <<>>
    /\ bd_exc = "none"
    /\ log = <<>>
    /\ row_flag = [i \in 1..Len(bd_catalog) |-> "none"]
    /\ CatIdle
    /\ DriverIdle

Positions(seq) == [i \in 1..Len(seq) |-> [at |-> i, row |-> seq[i]]]

\* tiny: one call of download_sector_catalog_lightcurves on catalog[:_TINY_SIZE]
BD_StartTiny ==
    /\ bpc = "start" /\ tiny
    /\ pool' = NewPool(Positions(Take(bd_catalog, TINY_SIZE)))
    /\ log' = Append(log, [ev |-> "call", batch |-> 0])
    /\ bpc' = "tiny_call"
    /\ UNCHANGED <<bd_catalog, bi, results, bd_exc, row_flag, tiny, fits_dir, stdVars, catVars, driverVars>>

\* not tiny: results = [] and the loop over the batches begins
BD_StartBatched ==
    /\ bpc = "start" /\ ~tiny
    /\ results' = <<>>
    /\ bi' = 1
    /\ bpc' = "loop"
    /\ UNCHANGED <<bd_catalog, pool, bd_exc, log, row_flag, tiny, fits_dir, stdVars, catVars, driverVars>>

\* the for loop takes the next batch and calls
\* download_sector_catalog_lightcurves(batch) inside the try
BD_NextBatch ==
    /\ bpc = "loop"
    /\ bi <= Len(batcher(bd_catalog, BATCH_SIZE))
    /\ pool' = NewPool(batcher(bd_catalog, BATCH_SIZE)[bi])
    /\ log' = Append(log, [ev |-> "call", batch |-> bi])
    /\ bpc' = "try"
    /\ UNCHANGED <<bd_catalog, bi, results, bd_exc, row_flag, tiny, fits_dir, stdVars, catVars, driverVars>>

\* a worker of the pool runs get_fits_lightcurve on a row
Fetch ==
    /\ Running
    /\ \E j \in 1..Len(pool) : \E o \in CurlOutcomes(pool[j].row), data \in Served \cup {NoData} :
          /\ pool[j].state = "pending"
          \* curl that exits 0 has written what the server sent to its output
          \* file; curl that fails has written nothing or a part; a command
          \* that was not started has written nothing
          /\ o = "exit0" => data \in Served
          /\ o = "CalledProcessError" => data \in {NoData, NotFits}
          /\ o = "OSError" => data = NoData
          /\ fits_files' = IF data = NoData THEN fits_files
                           ELSE WriteFile(fits_files, curl_output(pool[j].row), data)
          /\ LET r == get_fits_lightcurve(pool[j].row, o)
             IN /\ pool' = [pool EXCEPT ![j].state = IF r.exc = "none" THEN "done" ELSE "raised",
                                         ![j].outcome = o,
                                         ![j].res = IF r.exc = "none" THEN r.val ELSE FALSE]
                /\ row_flag' = IF r.exc = "none"
                               THEN [row_flag EXCEPT ![pool[j].at] = IF r.val THEN "True" ELSE "False"]
                               ELSE row_flag
    /\ UNCHANGED <<bd_catalog, bpc, bi, results, bd_exc, log, tiny, fits_dir, stdVars, catVars,
                   shards, dpc, d_catalog, n_files, tasks, d_exc, trace>>

\* results.append(self.download_sector_catalog_lightcurves(batch)), in the
\* try or in the except clause
BD_Append ==
    /\ bpc \in {"try", "retry"}
    /\ PoolDone(pool)
    /\ results' = Append(results, PyList(PoolFlags(pool)))
    /\ pool' = NoPool
    /\ bi' = bi + 1
    /\ bpc' = "loop"
    /\ UNCHANGED <<bd_catalog, bd_exc, log, row_flag, tiny, fits_dir, stdVars, catVars, driverVars>>

\* the call in the try raises: print, time.sleep(PAUSE_TIME), and the call
\* of the except clause on the same batch
BD_Except ==
    /\ bpc = "try"
    /\ PoolRaised(pool)
    /\ pool' = NewPool(batcher(bd_catalog, BATCH_SIZE)[bi])
    /\ log' = log \o <<[ev |-> "sleep", batch |-> bi], [ev |-> "call", batch |-> bi]>>
    /\ bpc' = "retry"
    /\ UNCHANGED <<bd_catalog, bi, results, bd_exc, row_flag, tiny, fits_dir, stdVars, catVars, driverVars>>

\* a retry inside the loop of retries: pause and call the batch again
BD_RetryRaises_again ==
    /\ bpc = "retry"
    /\ PoolRaised(pool)
    /\ pool' = NewPool(batcher(bd_catalog, BATCH_SIZE)[bi])
    /\ log' = log \o <<[ev |-> "sleep", batch |-> bi], [ev |-> "call", batch |-> bi]>>
    /\ UNCHANGED <<bd_catalog, bpc, bi, results, bd_exc, row_flag, tiny, fits_dir, stdVars, catVars, driverVars>>

\* the call in the except clause raises: nothing catches it
BD_RetryRaises ==
    /\ bpc = "retry"
    /\ PoolRaised(pool)
    /\ pool' = NoPool
    /\ bd_exc' = "OSError"
    /\ bpc' = "raised"
    /\ UNCHANGED <<bd_catalog, bi, results, log, row_flag, tiny, fits_dir, stdVars, catVars, driverVars>>

\* the loop is over: if sum([result for result in results]) != catalog_len
BD_Check ==
    /\ bpc = "loop"
    /\ bi > Len(batcher(bd_catalog, BATCH_SIZE))
    /\ LET total == PySum(results)
       IN IF total.exc # "none"
          THEN bd_exc' = total.exc /\ bpc' = "raised"
          ELSE bd_exc' = bd_exc /\ bpc' = "returned"
    /\ UNCHANGED <<bd_catalog, bi, pool, results, log, row_flag, tiny, fits_dir, stdVars, catVars, driverVars>>

\* tiny: the one call returns and batched_download returns its list
BD_TinyReturn ==
    /\ bpc = "tiny_call"
    /\ PoolDone(pool)
    /\ results' = [j \in 1..Len(pool) |-> PyBool(pool[j].res)]
    /\ pool' = NoPool
    /\ bpc' = "returned"
    /\ UNCHANGED <<bd_catalog, bi, bd_exc, log, row_flag, tiny, fits_dir, stdVars, catVars, driverVars>>

\* a tiny call that is retried after a pause
BD_TinyRaises_retry ==
    /\ bpc = "tiny_call"
    /\ PoolRaised(pool)
    /\ pool' = NewPool(Positions(Take(bd_catalog, TINY_SIZE)))
    /\ log' = log \o <<[ev |-> "sleep", batch |-> 0], [ev |-> "call", batch |-> 0]>>
    /\ UNCHANGED <<bd_catalog, bpc, bi, results, bd_exc, row_flag, tiny, fits_dir, stdVars, catVars, driverVars>>

\* tiny: the one call raises and nothing catches it
BD_TinyRaises ==
    /\ bpc = "tiny_call"
    /\ PoolRaised(pool)
    /\ pool' = NoPool
    /\ bd_exc' = "OSError"
    /\ bpc' = "raised"
    /\ UNCHANGED <<bd_catalog, bi, results, log, row_flag, tiny, fits_dir, stdVars, catVars, driverVars>>

BatchNext ==
    \/ BD_StartTiny \/ BD_StartBatched \/ BD_NextBatch \/ Fetch
    \/ BD_Append \/ BD_Except \/ BD_RetryRaises \/ BD_Check
    \/ BD_TinyReturn \/ BD_TinyRaises

SpecBatch == BatchInit /\ [][BatchNext]_vars

----------------------------------------------------------------------------
(* Properties of the fetcher and of the batch orchestrator *)

Finished == bpc \in {"returned", "raised"}
TotalBatches == NumBatches(Len(bd_catalog), BATCH_SIZE)
Events(ev, b) == {k \in 1..Len(log) : log[k] = [ev |-> ev, batch |-> b]}
Calls(b) == Cardinality(Events("call", b))
Pauses(b) == Cardinality(Events("sleep", b))
AllCalls == {k \in 1..Len(log) : log[k].ev = "call"}

RECURSIVE Flags(_)
Flags(seq) ==
    IF seq = <<>> THEN <<>>
    ELSE (IF Head(seq).type = "list" THEN Head(seq).l ELSE <<Head(seq).b>>)
         \o Flags(Tail(seq))
NumberOf(b, flags) == Cardinality({i \in 1..Len(flags) : flags[i] = b})

\* C1: not tiny: when a batch raised once and its retry succeeded (no retry
\* raised), batched_download returns normally with the results of every
\* batch; no exception reaches the caller.
C1_RetriedBatchCompletes ==
    ( /\ ~tiny /\ Finished
      /\ \E b \in 1..TotalBatches : Calls(b) = 2
      /\ bd_exc # "OSError" )
    => /\ bpc = "returned"
       /\ Len(results) = TotalBatches

\* C2: not tiny: every batch is invoked at most twice; the second invocation
\* of a batch comes directly after the one pause that follows the raise of
\* the first; when the retry raises too the exception reaches the caller and
\* no later batch is invoked; at most 2 * ceil(N / batch_size) invocations.
C2_AtMostOneRetry ==
    ~tiny =>
        /\ \A b \in 1..TotalBatches : Calls(b) <= 2 /\ Pauses(b) = (IF Calls(b) = 2 THEN 1 ELSE 0)
        /\ \A k \in 1..Len(log) :
              log[k].ev = "sleep" =>
                  /\ k > 1 /\ k < Len(log)
                  /\ log[k - 1] = [ev |-> "call", batch |-> log[k].batch]
                  /\ log[k + 1] = [ev |-> "call", batch |-> log[k].batch]
        /\ \A k \in 1..Len(log) : log[k].batch \in 1..TotalBatches
        /\ Cardinality(AllCalls) <= 2 * TotalBatches
        /\ bd_exc = "OSError" =>
              /\ bpc = "raised"
              /\ Calls(bi) = 2
              /\ \A b \in (bi + 1)..TotalBatches : Calls(b) = 0
        /\ (bpc = "retry" /\ PoolRaised(pool)) => ENABLED BD_RetryRaises

C2_Witness ==
    /\ ~tiny /\ bpc = "raised" /\ bd_exc = "OSError"
    /\ bi = 1 /\ TotalBatches >= 2
    /\ Calls(1) = 2 /\ Pauses(1) = 1

\* C3: not tiny: batched_download returns one flat sequence with exactly one
\* flag per catalog row, in catalog row order.
C3_FlatRowOrder ==
    (~tiny /\ Finished /\ bd_exc # "OSError") =>
        /\ bpc = "returned"
        /\ results = [i \in 1..Len(bd_catalog) |-> PyBool(row_flag[i] = "True")]

\* C4: not tiny: when no batch raised, batched_download returns normally for
\* every non-empty catalog and every mix of flags, and the true flags plus
\* the false flags are as many as the catalog rows.
C4_DiscrepancyNotFatal ==
    ( /\ ~tiny /\ Finished /\ Len(bd_catalog) >= 1
      /\ \A b \in 1..TotalBatches : Calls(b) = 1 )
    => /\ bpc = "returned"
       /\ NumberOf(TRUE, Flags(results)) + NumberOf(FALSE, Flags(results))
             = Len(bd_catalog)

\* C5: get_fits_lightcurve never raises: it returns true only when the
\* transfer command reports success and false for every transfer error,
\* a command that cannot be launched included.
C5_FetcherNeverRaises ==
    \A j \in 1..Len(pool) :
        /\ pool[j].state # "raised"
        /\ (pool[j].state = "done" /\ pool[j].res) => pool[j].outcome = "exit0"
        /\ pool[j].outcome \in {"CalledProcessError", "OSError"} =>
              (pool[j].state = "done" /\ ~pool[j].res)

\* C22: tiny: batched_download makes one call of
\* download_sector_catalog_lightcurves, on the first _TINY_SIZE rows of the
\* catalog and not through the batcher, never pauses and never calls again;
\* when the call raises, batched_download raises that exception with nothing
\* returned, and no row after the first _TINY_SIZE is ever fetched.
C22_TinyOneCallNoRetry ==
    tiny =>
        /\ log = (IF bpc = "start" THEN <<>> ELSE <<[ev |-> "call", batch |-> 0]>>)
        /\ bpc \in {"start", "tiny_call", "returned", "raised"}
        /\ bpc = "tiny_call" =>
              /\ Len(pool) = (IF Len(bd_catalog) < TINY_SIZE THEN Len(bd_catalog)
                              ELSE TINY_SIZE)
              /\ \A j \in 1..Len(pool) : pool[j].at = j /\ pool[j].row = bd_catalog[j]
        /\ (bpc = "tiny_call" /\ PoolRaised(pool)) =>
              (ENABLED BD_TinyRaises /\ ~ENABLED BD_TinyReturn)
        /\ (bpc = "raised") <=> (bd_exc # "none")
        /\ bpc = "raised" => results = <<>>
        /\ \A i \in 1..Len(bd_catalog) : i > TINY_SIZE => row_flag[i] = "none"

\* the one call on the first rows of a longer catalog raised
C22_Witness ==
    /\ tiny /\ bpc = "raised" /\ bd_exc = "OSError"
    /\ Len(bd_catalog) > TINY_SIZE
    /\ log = <<[ev |-> "call", batch |-> 0]>>
    /\ \E i \in 1..TINY_SIZE : row_flag[i] # "none"

RECURSIVE Concat(_)
Concat(seqs) == IF seqs = <<>> THEN <<>> ELSE Head(seqs) \o Concat(Tail(seqs))

BatchRows(batch) == [j \in 1..Len(batch) |-> batch[j].row]

\* C20: for every batch size B >= 1, the batches of the catalog put end to
\* end are the catalog's rows in their order, every position of the catalog
\* is in exactly one batch, every batch but the last has B rows, the last has
\* 1..B rows, and an empty catalog has no batch; the rows a batch's pool works
\* on are the rows of that batch.
C20_BatcherPartitions ==
    /\ \A B \in 1..(MaxRows + 1) :
          LET bs == batcher(bd_catalog, B)
              n == Len(bs)
          IN /\ Concat([k \in 1..n |-> BatchRows(bs[k])]) = bd_catalog
             /\ \A p \in 1..Len(bd_catalog) :
                   Cardinality({<<k, j>> \in (1..n) \X (1..B) :
                                  j <= Len(bs[k]) /\ bs[k][j].at = p}) = 1
             /\ \A k \in 1..(n - 1) : Len(bs[k]) = B
             /\ n >= 1 => Len(bs[n]) \in 1..B
             /\ bd_catalog = <<>> => n = 0
    /\ (~tiny /\ bpc \in {"try", "retry"}) =>
          /\ Len(pool) = (IF bi * BATCH_SIZE <= Len(bd_catalog) THEN BATCH_SIZE
                          ELSE Len(bd_catalog) - (bi - 1) * BATCH_SIZE)
          /\ \A j \in 1..Len(pool) :
                /\ pool[j].at = (bi - 1) * BATCH_SIZE + j
                /\ pool[j].row = bd_catalog[pool[j].at]
    /\ (~tiny /\ Finished /\ bd_exc = "none") =>
          \A p \in 1..Len(bd_catalog) : row_flag[p] # "none"

\* the last batch is shorter than the batch size and its pool is at work
C20_Witness ==
    /\ ~tiny /\ bpc = "try"
    /\ bi >= 2 /\ bi = Len(batcher(bd_catalog, BATCH_SIZE))
    /\ Len(pool) \in 1..(BATCH_SIZE - 1)

----------------------------------------------------------------------------
(* The call create_sector_catalog(save_catalog, tiny) *)

\* the files download_sh_script and download_target_csv_file may have left:
\* a script of one header line and at least one curl line, a target list, or
\* no file at all
ShFiles == {Absent} \cup {File(<<HeaderLine>> \o ls) : ls \in SeqsUpTo(Lines, 1, MaxLines)}
CsvFiles == {Absent} \cup {File(rs) : rs \in SeqsUpTo(MetaRows, 0, MaxMeta)}

CatInit ==
    /\ StdIdle
    /\ fits_dir = <<"fits">>
    /\ sh_file \in ShFiles
    /\ csv_file \in CsvFiles
    /\ tiny \in BOOLEAN
    /\ save_catalog \in BOOLEAN
    /\ cpc = "start"
    /\ cat_result = None
    /\ catalog_file = Absent
    /\ BatchIdle
    /\ DriverIdle

CreateCatalogReturns ==
    /\ cpc = "start"
    /\ LET r == create_sector_catalog(sh_file, csv_file, tiny)
       IN /\ r.exc = "none"
          /\ cat_result' = r
          /\ catalog_file' = IF save_catalog THEN File(r.val) ELSE catalog_file
    /\ cpc' = "returned"
    /\ UNCHANGED <<sh_file, csv_file, tiny, fits_dir, stdVars, save_catalog, batchVars, driverVars>>

CreateCatalogRaises ==
    /\ cpc = "start"
    /\ LET r == create_sector_catalog(sh_file, csv_file, tiny)
       IN /\ r.exc # "none"
          /\ cat_result' = r
    /\ cpc' = "raised"
    /\ UNCHANGED <<sh_file, csv_file, tiny, fits_dir, stdVars, save_catalog, catalog_file, batchVars, driverVars>>

CatNext == CreateCatalogReturns \/ CreateCatalogRaises

SpecCatalog == CatInit /\ [][CatNext]_vars

----------------------------------------------------------------------------
(* Record extractor and standardizer *)

\* fits_fp = os.path.join(self.fits_dir,
\*   f'{sector_str}/{fp1}/{fp2}/{fp3}/{fp4}/hlsp_qlp_tess_ffi_{sector_str}-{TIC_ID:016d}_tess_v01_llc.fits')
fits_fp(catalog_row) ==
    os_path_join(fits_dir,
        [sector_dir |-> sector_str, fp |-> catalog_row.fp, stem |-> "hlsp_qlp_tess_ffi_",
         sector |-> sector_str, tic |-> Format016d(catalog_row.TIC_ID),
         suffix |-> "_tess_v01_llc.fits"])

\* processing_fn(row): fits.open raises FileNotFoundError when no file is at
\* fits_fp, which the except clause turns into None (val <<>>); on a file
\* that is not FITS it raises OSError, and reading a column the table lacks
\* raises KeyError, neither of which is caught; otherwise the record of the
\* row (val a one-element sequence)
processing_fn_swallow(catalog_row, files) ==
    LET p == fits_fp(catalog_row)
    IN IF p \notin DOMAIN files \/ files[p].kind # "lightcurve" THEN None
       ELSE Return(<<[TIC_ID |-> catalog_row.TIC_ID, time |-> files[p].time,
                      sap_flux |-> files[p].sap_flux, RA |-> files[p].ra_obj]>>)

processing_fn(catalog_row, files) ==
    LET p == fits_fp(catalog_row)
    IN IF p \notin DOMAIN files THEN None
       ELSE IF files[p].kind = "not_fits" THEN Raise("OSError")
       ELSE IF files[p].kind = "no_column" THEN Raise("KeyError")
       ELSE Return(<<[TIC_ID |-> catalog_row.TIC_ID, time |-> files[p].time,
                      sap_flux |-> files[p].sap_flux, RA |-> files[p].ra_obj]>>)

\* the loop over the rows of the group: results.append(result) for every
\* result that is not None; an exception of processing_fn ends the loop
RECURSIVE Extract(_, _)
Extract(subcatalog, files) ==
    IF subcatalog = <<>> THEN Return(<<>>)
    ELSE LET result == processing_fn(Head(subcatalog), files)
             rest == Extract(Tail(subcatalog), files)
         IN IF result.exc # "none" THEN Raise(result.exc)
            ELSE IF rest.exc # "none" THEN Raise(rest.exc)
            ELSE Return(result.val \o rest.val)

Max(S) == CHOOSE m \in S : \A q \in S : q <= m

\* a padding that puts the zeros in front
np_pad_before(arr, after) == [i \in 1..after |-> 0] \o arr

\* np.pad(arr, (0, after), mode='constant')
np_pad(arr, after) == arr \o [i \in 1..after |-> 0]

\* the loop over results and keys: every value that is an ndarray is padded
\* to max_length
pad_results(results_, max_length) ==
    [i \in 1..Len(results_) |->
        [TIC_ID |-> results_[i].TIC_ID,
         time |-> np_pad(results_[i].time, max_length - Len(results_[i].time)),
         sap_flux |-> np_pad(results_[i].sap_flux, max_length - Len(results_[i].sap_flux)),
         RA |-> results_[i].RA]]

\* a standardizer that takes the maximum of no lengths to be 0
save_in_standard_format_default(subcatalog, files) ==
    LET r == Extract(subcatalog, files)
    IN IF r.exc # "none" THEN Raise(r.exc)
       ELSE Return(pad_results(r.val, Max({0} \cup {Len(r.val[i].time) : i \in 1..Len(r.val)})))

\* save_in_standard_format((subcatalog, output_filename)) up to the opening of
\* the output file: the rows of the table lightcurves; max() of an empty
\* list raises ValueError
save_in_standard_format(subcatalog, files) ==
    LET r == Extract(subcatalog, files)
    IN IF r.exc # "none" THEN Raise(r.exc)
       ELSE IF r.val = <<>> THEN Raise("ValueError")
       ELSE Return(pad_results(r.val, Max({Len(r.val[i].time) : i \in 1..Len(r.val)})))

\* with h5py.File(output_filename, 'w'): the file is created or truncated and
\* one dataset per column is written
h5py_append(old, rows) == File(old.lines \o rows)
h5py_write(old, rows) == File(rows)

\* a shard an earlier run left at output_filename
OldShard == File(<<[TIC_ID |-> 0, time |-> <<7>>, sap_flux |-> <<7>>, RA |-> 0]>>)

\* C12: for every row a worker has fetched, the file curl wrote to is the
\* file processing_fn opens for the row: every file the fetchers left is the
\* raw file of a row, and a row whose fetch returned True has its raw file.
C12_FetchPathIsExtractorPath ==
    /\ \A j \in 1..Len(pool) :
          pool[j].state # "pending" => curl_output(pool[j].row) = fits_fp(pool[j].row)
    /\ DOMAIN fits_files \subseteq {fits_fp(bd_catalog[i]) : i \in 1..Len(bd_catalog)}
    /\ \A i \in 1..Len(bd_catalog) :
          row_flag[i] = "True" => processing_fn(bd_catalog[i], fits_files) # None

\* the shard of a group: output_filename =
\* os.path.join(hdf5_output_dir, 'QLP/healpix={}/001-of-001.hdf5'.format(healpix))
output_filename(healpix) ==
    [dir |-> "QLP", healpix |-> healpix, name |-> "001-of-001.hdf5"]

\* C19: no two workers that run together write the same file: the files
\* curl writes for two tasks of one fetch pool differ, and the shards of two
\* tasks of the standardization pool differ.
C19_WritersDisjoint ==
    /\ \A j, k \in 1..Len(pool) :
          j # k => curl_output(pool[j].row) # curl_output(pool[k].row)
    /\ \A g, h \in 1..Len(tasks) :
          g # h => output_filename(tasks[g].healpix) # output_filename(tasks[h].healpix)

RECURSIVE SelectRows(_, _)
SelectRows(cat, h) ==
    IF cat = <<>> THEN <<>>
    ELSE (IF Head(cat).healpix = h THEN <<Head(cat)>> ELSE <<>>) \o SelectRows(Tail(cat), h)

RECURSIVE SortKeys(_)
SortKeys(K) ==
    IF K = {} THEN <<>>
    ELSE LET m == CHOOSE k \in K : \A q \in K : k <= q
         IN <<m>> \o SortKeys(K \ {m})

\* catalog.group_by(['healpix']).groups: one group per key, by ascending key,
\* the rows of a group in catalog order
group_by(cat) ==
    LET keys == SortKeys({cat[k].healpix : k \in 1..Len(cat)})
    IN [g \in 1..Len(keys) |-> [healpix |-> keys[g], rows |-> SelectRows(cat, keys[g])]]

\* map_args of convert_fits_to_standard_format as the tasks of its pool
NewTasks(cat) ==
    LET groups == group_by(cat)
    IN [g \in 1..Len(groups) |->
          [healpix |-> groups[g].healpix, rows |-> groups[g].rows, state |-> "pending",
           exc |-> "none"]]

----------------------------------------------------------------------------
(* The script scripts/tess/tess_lc/build_parent_sample.py: its               *)
(* processing_fn and save_in_standard_format                                 *)

\* fits_path = f'./{sector_str}/cam{cam}-ccd{ccd}/{fp1}/{fp2}/{fp3}/{fp4}/
\*   hlsp_tglc_tess_ffi_gaiaid-{gaiadr3_id}-s0023-cam{cam}-ccd{cam}_tess_v1_llc.fits'
tess_lc_fits_path(row) ==
    [dir |-> <<".">>,
     path |-> [sector_dir |-> "s0023", camccd_dir |-> <<row.cam, row.ccd>>, fp |-> row.fp,
               stem |-> "hlsp_tglc_tess_ffi_gaiaid-", gaia |-> row.gaiadr3_id,
               sector |-> "s0023", camccd |-> <<row.cam, row.cam>>,
               suffix |-> "_tess_v1_llc.fits"]]

\* processing_fn(row) of tess_lc: the same try and except FileNotFoundError;
\* sap_flux stands for its flux column psf_flux
tess_lc_processing_fn(row, files) ==
    LET p == tess_lc_fits_path(row)
    IN IF p \notin DOMAIN files THEN None
       ELSE IF files[p].kind = "not_fits" THEN Raise("OSError")
       ELSE IF files[p].kind = "no_column" THEN Raise("KeyError")
       ELSE Return(<<[TIC_ID |-> row.TIC_ID, time |-> files[p].time,
                      sap_flux |-> files[p].sap_flux, RA |-> files[p].ra_obj]>>)

\* for row in catalog: results.append(processing_fn(row)): every result is
\* kept, None too (an entry <<>>)
RECURSIVE tess_lc_results(_, _)
tess_lc_results(catalog, files) ==
    IF catalog = <<>> THEN Return(<<>>)
    ELSE LET result == tess_lc_processing_fn(Head(catalog), files)
             rest == tess_lc_results(Tail(catalog), files)
         IN IF result.exc # "none" THEN Raise(result.exc)
            ELSE IF rest.exc # "none" THEN Raise(rest.exc)
            ELSE Return(<<result.val>> \o rest.val)

\* save_in_standard_format of tess_lc: len(d['time']) of an entry None raises
\* TypeError, max() of an empty list ValueError
tess_lc_save_in_standard_format(catalog, files) ==
    LET r == tess_lc_results(catalog, files)
    IN IF r.exc # "none" THEN Raise(r.exc)
       ELSE IF \E i \in 1..Len(r.val) : r.val[i] = <<>> THEN Raise("TypeError")
       ELSE IF r.val = <<>> THEN Raise("ValueError")
       ELSE LET results_ == [i \in 1..Len(r.val) |-> r.val[i][1]]
            IN Return(pad_results(results_,
                        Max({Len(results_[i].time) : i \in 1..Len(results_)})))

----------------------------------------------------------------------------
(* The call save_in_standard_format((subcatalog, output_filename)) on one   *)
(* group, made once or again                                                 *)

\* a group of n rows of one sky pixel
GroupRows(n) ==
    [i \in 1..n |->
        [TIC_ID |-> 99 + i, fp |-> "0000/0000/0000/0100", RA |-> 10, DEC |-> 5,
         healpix |-> ang2pix(10, 5), cam |-> 1, ccd |-> 2, gaiadr3_id |-> 5000 + i]]

\* the numbers of rows of the light curve tables under fits_dir
Lengths == {0, 95, 120}

\* what may be at the path of a row: nothing (NoData) or a file
RawStates == {NoData, NotFits, NoColumn} \cup {Lightcurve(n) : n \in Lengths}

\* the file the extractor of the variant opens for a row
RawPath(variant, row) == IF variant = "qlp" THEN fits_fp(row) ELSE tess_lc_fits_path(row)

\* the files under fits_dir when row i is in state raw[i]
FilesOf(variant, subcatalog, raw) ==
    LET present == {i \in 1..Len(subcatalog) : raw[i] # NoData}
    IN [p \in {RawPath(variant, subcatalog[i]) : i \in present} |->
            raw[CHOOSE i \in present : RawPath(variant, subcatalog[i]) = p]]

OutputKey == ang2pix(10, 5)

StdInit ==
    /\ tiny = FALSE
    /\ fits_dir = <<"fits">>
    /\ s_variant \in {"qlp", "tess_lc"}
    /\ s_subcatalog \in {GroupRows(n) : n \in 1..MaxGroup}
    /\ \E raw \in [1..Len(s_subcatalog) -> RawStates] :
          fits_files = FilesOf(s_variant, s_subcatalog, raw)
    /\ \E old \in {Absent, OldShard} : shards = [h \in Pixels |-> old]
    /\ spc = "start"
    /\ s_exc = "none"
    /\ s_calls = 0
    /\ s_before = Absent
    /\ s_first = Absent
    /\ dpc = "idle" /\ d_catalog = <<>> /\ n_files = 0 /\ tasks = <<>>
    /\ d_exc = "none" /\ trace = <<>>
    /\ CatIdle
    /\ BatchIdle

\* what the call of the variant gives on the files
SaveResult ==
    IF s_variant = "qlp" THEN save_in_standard_format(s_subcatalog, fits_files)
    ELSE tess_lc_save_in_standard_format(s_subcatalog, fits_files)

\* the call runs to its return 1: the output file is written
S_SaveReturns ==
    /\ spc \in {"start", "returned", "raised", "changed"}
    /\ s_calls < MaxCalls
    /\ SaveResult.exc = "none"
    /\ shards' = [shards EXCEPT ![OutputKey] = h5py_write(@, SaveResult.val)]
    /\ spc' = "returned"
    /\ s_exc' = "none"
    /\ s_calls' = s_calls + 1
    /\ s_before' = shards[OutputKey]
    /\ s_first' = IF s_calls = 0 THEN shards'[OutputKey] ELSE s_first
    /\ UNCHANGED <<tiny, fits_dir, s_variant, s_subcatalog, catVars, batchVars,
                   fits_files, dpc, d_catalog, n_files, tasks, d_exc, trace>>

\* the call raises before the output file is opened
S_SaveRaises ==
    /\ spc \in {"start", "returned", "raised", "changed"}
    /\ s_calls < MaxCalls
    /\ SaveResult.exc # "none"
    /\ spc' = "raised"
    /\ s_exc' = SaveResult.exc
    /\ s_calls' = s_calls + 1
    /\ s_before' = shards[OutputKey]
    /\ s_first' = IF s_calls = 0 THEN shards[OutputKey] ELSE s_first
    /\ UNCHANGED <<tiny, fits_dir, s_variant, s_subcatalog, catVars, batchVars, driverVars>>

\* between two calls a raw file is removed from fits_dir
S_RemoveRawFile ==
    /\ spc \in {"returned", "raised"}
    /\ s_calls < MaxCalls
    /\ \E p \in DOMAIN fits_files :
          fits_files' = [q \in DOMAIN fits_files \ {p} |-> fits_files[q]]
    /\ spc' = "changed"
    /\ UNCHANGED <<tiny, fits_dir, s_variant, s_subcatalog, s_exc, s_calls, s_before, s_first,
                   catVars, batchVars, shards, dpc, d_catalog, n_files, tasks, d_exc, trace>>

StdNext == S_SaveReturns \/ S_SaveRaises \/ S_RemoveRawFile

SpecStandardize == StdInit /\ [][StdNext]_vars

----------------------------------------------------------------------------
(* Properties of the extractor and the standardizer *)

Rows == 1..Len(s_subcatalog)
RawOf(i) == RawPath(s_variant, s_subcatalog[i])
IsPresent(i) == RawOf(i) \in DOMAIN fits_files
IsReadable(i) == IsPresent(i) /\ fits_files[RawOf(i)].kind = "lightcurve"
Extracted(i) ==
    IF s_variant = "qlp" THEN processing_fn(s_subcatalog[i], fits_files)
    ELSE tess_lc_processing_fn(s_subcatalog[i], fits_files)
\* the latest call has ended and fits_dir is as the call found it
CallEnded == spc \in {"returned", "raised"}
ReadError(kind) == IF kind = "not_fits" THEN "OSError" ELSE "KeyError"

\* C13: processing_fn returns None, and raises nothing, exactly for the rows
\* whose raw file is absent; on a present file that cannot be read it raises
\* (OSError for a file that is not FITS, KeyError for a missing column), and
\* the call of save_in_standard_format that met such a file ended with the
\* error of the first such row.
C13_MissingOnlyWhenAbsent ==
    /\ \A i \in Rows :
          /\ (Extracted(i) = None) <=> ~IsPresent(i)
          /\ (IsPresent(i) /\ ~IsReadable(i)) =>
                Extracted(i) = Raise(ReadError(fits_files[RawOf(i)].kind))
          /\ IsReadable(i) =>
                /\ Extracted(i).exc = "none"
                /\ Len(Extracted(i).val) = 1
                /\ Extracted(i).val[1].TIC_ID = s_subcatalog[i].TIC_ID
                /\ Extracted(i).val[1].time = fits_files[RawOf(i)].time
    /\ (CallEnded /\ \E i \in Rows : IsPresent(i) /\ ~IsReadable(i)) =>
          LET first == CHOOSE i \in Rows :
                          /\ IsPresent(i) /\ ~IsReadable(i)
                          /\ \A k \in 1..(i - 1) : ~IsPresent(k) \/ IsReadable(k)
          IN spc = "raised" /\ s_exc = ReadError(fits_files[RawOf(first)].kind)

\* a call met an absent file, passed it, and ended with the error of a file
\* that is not FITS
C13_Witness ==
    /\ s_variant = "qlp" /\ spc = "raised" /\ s_exc = "OSError"
    /\ Len(s_subcatalog) >= 2
    /\ ~IsPresent(1)
    /\ IsPresent(2) /\ fits_files[RawOf(2)].kind = "not_fits"

\* the rows of the group whose raw file is present, in the group's order
RECURSIVE PresentFrom(_)
PresentFrom(i) ==
    IF i > Len(s_subcatalog) THEN <<>>
    ELSE (IF IsPresent(i) THEN <<i>> ELSE <<>>) \o PresentFrom(i + 1)
PresentRows == PresentFrom(1)
Shard == shards[OutputKey]

\* C14: a call on a group of which some but not all raw files are absent,
\* the present ones being readable, raises nothing and leaves a shard with
\* one row per row of the group whose raw file is present, in the group's
\* order.
C14_PartialAbsenceTolerated ==
    (/\ CallEnded
     /\ \E i \in Rows : ~IsPresent(i)
     /\ \E i \in Rows : IsPresent(i)
     /\ \A i \in Rows : IsPresent(i) => IsReadable(i))
    => /\ spc = "returned" /\ s_exc = "none"
       /\ Shard.exists
       /\ Len(Shard.lines) = Len(PresentRows)
       /\ \A k \in 1..Len(PresentRows) :
             Shard.lines[k].TIC_ID = s_subcatalog[PresentRows[k]].TIC_ID

Origin(k) == fits_files[RawOf(PresentRows[k])]
\* the largest number of table rows among the raw files of the group
MaxLength == Max({Len(fits_files[RawOf(i)].time) : i \in {j \in Rows : IsPresent(j)}})

\* C16: in the shard a call has written, every array of every row has length
\* M, the largest array length among the extracted records of the group; an
\* array of original length L holds its original values at the positions
\* below L and zero from L on, so none is truncated; padding the rows of the
\* shard to M again changes nothing.
C16_PaddingToGroupMaximum ==
    (spc = "returned")
    => LET M == MaxLength
       IN /\ Len(Shard.lines) = Len(PresentRows)
          /\ \A k \in 1..Len(Shard.lines) :
                LET row == Shard.lines[k]
                    orig == Origin(k)
                    L == Len(orig.time)
                IN /\ Len(row.time) = M /\ Len(row.sap_flux) = M
                   /\ L <= M
                   /\ \A j \in 1..L :
                         row.time[j] = orig.time[j] /\ row.sap_flux[j] = orig.sap_flux[j]
                   /\ \A j \in (L + 1)..M : row.time[j] = 0 /\ row.sap_flux[j] = 0
          /\ pad_results(Shard.lines, M) = Shard.lines

\* arrays of 120 and 95 values: 25 zeros close the shorter one
C16_Witness ==
    /\ spc = "returned"
    /\ Len(Shard.lines) = 2
    /\ Len(Origin(1).time) = 120 /\ Len(Origin(2).time) = 95
    /\ Len(Shard.lines[2].time) = 120
    /\ \A j \in 96..120 : Shard.lines[2].sap_flux[j] = 0
    /\ Shard.lines[2].sap_flux[95] # 0

\* C18: the shard a call has written holds the rows of that call and no
\* other: one row per extracted record, in order, whatever the file held
\* before (an old shard, the rows of an earlier call); a second call that
\* extracts the records of the first leaves the shard the first left.
C18_RerunRewritesShard ==
    (spc = "returned")
    => /\ Shard.exists
       /\ Len(Shard.lines) = Len(PresentRows)
       /\ \A k \in 1..Len(Shard.lines) :
             /\ Shard.lines[k].TIC_ID = s_subcatalog[PresentRows[k]].TIC_ID
             /\ Shard.lines[k].RA = Origin(k).ra_obj
             /\ SubSeq(Shard.lines[k].time, 1, Len(Origin(k).time)) = Origin(k).time
       /\ \A k \in 1..Len(Shard.lines) : Shard.lines[k] \notin {OldShard.lines[1]}
       /\ (/\ s_calls >= 2
           /\ s_first \notin {Absent, OldShard}
           /\ Len(s_first.lines) = Len(PresentRows))
          => Shard = s_first

\* the second call on the same records found the shard of the first call
C18_Witness ==
    /\ spc = "returned" /\ s_calls = 2
    /\ s_before = s_first /\ s_before \notin {Absent, OldShard}
    /\ Len(s_before.lines) = Len(PresentRows) /\ Len(PresentRows) >= 2
    /\ Shard = s_first

----------------------------------------------------------------------------
(* Pipeline driver: the call download_sector(tiny, show_progress, save_catalog) *)

\* the files the archive serves
RemoteScript ==
    File(<<HeaderLine>> \o
         [i \in 1..3 |-> [ntok |-> 5, ndash |-> 2, digits |-> TRUE, tic |-> 99 + i,
                          fp |-> "0000/0000/0000/0100"]])
RemoteTargetList ==
    File(<<[TIC_ID |-> 100, RA |-> 10, DEC |-> 5],
           [TIC_ID |-> 101, RA |-> 200, DEC |-> -40],
           [TIC_ID |-> 102, RA |-> 12, DEC |-> 6]>>)

\* a .fits file under fits_dir that belongs to no row of the catalog
StaleFile == fits_fp([TIC_ID |-> 999, fp |-> "0000/0000/0000/0100"])
RawFiles ==
    {fits_fp([TIC_ID |-> i, fp |-> "0000/0000/0000/0100"]) : i \in Ids} \cup {StaleFile}

DriverScripts ==
    {Absent} \cup
    {File(<<HeaderLine>> \o ls) : ls \in SeqsUpTo(WellFormedLines, 1, DriverMaxLines)}
        \cup {File(<<HeaderLine>> \o <<l>>) : l \in MalformedLines}

\* no target list, one without rows, or the one the archive serves
DriverTargetLists == {Absent, File(<<>>), RemoteTargetList}

DriverInit ==
    /\ StdIdle
    /\ tiny \in BOOLEAN
    /\ fits_dir = <<"fits">>
    /\ sh_file \in DriverScripts
    /\ csv_file \in DriverTargetLists
    /\ save_catalog = TRUE
    /\ cpc = "idle" /\ cat_result = None /\ catalog_file = Absent
    /\ BatchIdle
    /\ \E S \in SUBSET RawFiles : fits_files \in [S -> Served]
    /\ shards \in {[h \in Pixels |-> Absent], [h \in Pixels |-> OldShard]}
    /\ dpc = "download_sh_script"
    /\ d_catalog = <<>>
    /\ n_files = 0
    /\ tasks = <<>>
    /\ d_exc = "none"
    /\ trace = <<>>

\* download_sh_script: nothing to do when the file is there; otherwise wget
\* fetches it or fails, and the driver ignores which
D_DownloadSh ==
    /\ dpc = "download_sh_script"
    /\ IF sh_file.exists THEN sh_file' = sh_file
       ELSE sh_file' \in {RemoteScript, Absent}
    /\ dpc' = "download_target_csv_file"
    /\ UNCHANGED <<tiny, fits_dir, stdVars, csv_file, save_catalog, cpc, cat_result, catalog_file,
                   batchVars, fits_files, shards, d_catalog, n_files, tasks, d_exc, trace>>

D_DownloadCsv ==
    /\ dpc = "download_target_csv_file"
    /\ IF csv_file.exists THEN csv_file' = csv_file
       ELSE csv_file' \in {RemoteTargetList, Absent}
    /\ dpc' = "create_sector_catalog"
    /\ UNCHANGED <<tiny, fits_dir, stdVars, sh_file, save_catalog, cpc, cat_result, catalog_file,
                   batchVars, fits_files, shards, d_catalog, n_files, tasks, d_exc, trace>>

\* catalog = self.create_sector_catalog(save_catalog = save_catalog, tiny = tiny)
D_CreateCatalog ==
    /\ dpc = "create_sector_catalog"
    /\ LET r == create_sector_catalog(sh_file, csv_file, tiny)
       IN IF r.exc = "none"
          THEN /\ d_catalog' = r.val
               /\ catalog_file' = IF save_catalog THEN File(r.val) ELSE catalog_file
               /\ dpc' = "integrity_check"
               /\ d_exc' = d_exc
          ELSE /\ d_exc' = r.exc
               /\ dpc' = "raised"
               /\ UNCHANGED <<d_catalog, catalog_file>>
    /\ trace' = Append(trace, "create_sector_catalog")
    /\ UNCHANGED <<tiny, fits_dir, stdVars, sh_file, csv_file, save_catalog, cpc, cat_result,
                   batchVars, fits_files, shards, n_files, tasks>>

\* a check that accepts more files than rows
IntegrityOk_atleast(n, cat) == n >= Len(cat)

\* assert n_files == len(catalog)
IntegrityOk(n, cat) == n = Len(cat)

\* the call of batched_download is commented out (line 575): the next step
\* counts the .fits files under fits_dir and asserts
D_IntegrityCheck ==
    /\ dpc = "integrity_check"
    /\ n_files' = Cardinality(DOMAIN fits_files)
    /\ IF IntegrityOk(n_files', d_catalog)
       THEN dpc' = "convert" /\ d_exc' = d_exc
       ELSE dpc' = "raised" /\ d_exc' = "AssertionError"
    /\ trace' = Append(trace, "integrity_check")
    /\ UNCHANGED <<tiny, fits_dir, stdVars, catVars, batchVars, fits_files, shards, d_catalog, tasks>>

\* convert_fits_to_standard_format(catalog[:_TINY_SIZE] or catalog) groups the
\* catalog and hands the groups to its pool
D_StartConvert ==
    /\ dpc = "convert"
    /\ tasks' = NewTasks(IF tiny THEN Take(d_catalog, TINY_SIZE) ELSE d_catalog)
    /\ dpc' = "converting"
    /\ trace' = Append(trace, "convert_fits_to_standard_format")
    /\ UNCHANGED <<tiny, fits_dir, stdVars, catVars, batchVars, fits_files, shards, d_catalog, n_files, d_exc>>

\* a worker of the pool runs save_in_standard_format on a group
D_SaveGroup ==
    /\ dpc = "converting"
    /\ \E g \in 1..Len(tasks) :
          /\ tasks[g].state = "pending"
          /\ LET r == save_in_standard_format(tasks[g].rows, fits_files)
             IN IF r.exc = "none"
                THEN /\ shards' = [shards EXCEPT ![tasks[g].healpix] = h5py_write(@, r.val)]
                     /\ tasks' = [tasks EXCEPT ![g].state = "done"]
                ELSE /\ shards' = shards
                     /\ tasks' = [tasks EXCEPT ![g].state = "raised", ![g].exc = r.exc]
    /\ UNCHANGED <<tiny, fits_dir, stdVars, catVars, batchVars, fits_files, dpc, d_catalog, n_files, d_exc, trace>>

\* every group is done: convert_fits_to_standard_format returns and
\* download_sector returns 1
D_Return ==
    /\ dpc = "converting"
    /\ PoolDone(tasks)
    /\ dpc' = "returned"
    /\ UNCHANGED <<tiny, fits_dir, stdVars, catVars, batchVars, fits_files, shards, d_catalog, n_files, tasks,
                   d_exc, trace>>

\* list(pool.imap(...)) reaches a group whose task raised: the exception of
\* the task leaves convert_fits_to_standard_format and download_sector; the
\* with statement terminates the pool, whose pending tasks are never run
D_ConvertRaises ==
    /\ dpc = "converting"
    /\ PoolRaised(tasks)
    /\ dpc' = "raised"
    /\ d_exc' = tasks[CHOOSE g \in 1..Len(tasks) :
                        /\ tasks[g].state = "raised"
                        /\ \A k \in 1..(g - 1) : tasks[k].state = "done"].exc
    /\ UNCHANGED <<tiny, fits_dir, stdVars, catVars, batchVars, fits_files, shards, d_catalog, n_files, tasks,
                   trace>>

DriverNext ==
    \/ D_DownloadSh \/ D_DownloadCsv \/ D_CreateCatalog \/ D_IntegrityCheck
    \/ D_StartConvert \/ D_SaveGroup \/ D_Return \/ D_ConvertRaises

SpecDriver == DriverInit /\ [][DriverNext]_vars

----------------------------------------------------------------------------
(* Properties of the pipeline driver *)

Happened(step) == \E k \in 1..Len(trace) : trace[k] = step
NoShardWritten == \A h \in Pixels : shards[h] \in {Absent, OldShard}

\* C6: in every run the steps are, in this order: build the catalog, batch
\* fetch, integrity check, standardization; the batch fetch is executed
\* after the catalog is built and before the integrity check is evaluated.
C6_FetchBeforeIntegrityCheck ==
    \A k \in 1..Len(trace) :
        /\ trace[k] = "integrity_check" =>
              /\ k = 3
              /\ trace[1] = "create_sector_catalog"
              /\ trace[2] = "batched_download"
        /\ trace[k] = "convert_fits_to_standard_format" =>
              (k = 4 /\ trace[3] = "integrity_check")

\* C7: standardization is never started in a run where the number of .fits
\* files under fits_dir differs from the number of catalog rows: the run
\* halts at the assertion and no shard is written or overwritten.
C7_MismatchHaltsBeforeStandardization ==
    /\ (Happened("convert_fits_to_standard_format") \/ tasks # <<>> \/ ~NoShardWritten)
          => Cardinality(DOMAIN fits_files) = Len(d_catalog)
    /\ (Happened("integrity_check") /\ Cardinality(DOMAIN fits_files) # Len(d_catalog))
          => /\ dpc = "raised" /\ d_exc = "AssertionError"
             /\ ~Happened("convert_fits_to_standard_format")
             /\ NoShardWritten

\* C17: when the standardization of a group fails (no record left, a raw
\* file that cannot be read), the run ends with every other group of the
\* catalog standardized: its task is done and its shard holds the rows of
\* that task.
C17_FailureStaysInPartition ==
    (dpc = "raised" /\ \E g \in 1..Len(tasks) : tasks[g].state = "raised")
    => \A g \in 1..Len(tasks) :
          tasks[g].state # "raised" =>
              /\ tasks[g].state = "done"
              /\ shards[tasks[g].healpix] \notin {Absent, OldShard}

\* C21: once the integrity check of a run has passed, every row of the
\* catalog has its raw file at the path processing_fn opens for it: the
\* extractor reports no row of the catalog missing.
C21_PassedCheckMeansEveryFilePresent ==
    (Happened("integrity_check") /\ d_exc # "AssertionError")
    => \A k \in 1..Len(d_catalog) :
          /\ fits_fp(d_catalog[k]) \in DOMAIN fits_files
          /\ processing_fn(d_catalog[k], fits_files) # None

C7_Witness ==
    /\ dpc = "raised" /\ d_exc = "AssertionError"
    /\ Len(d_catalog) = 1
    /\ Cardinality(DOMAIN fits_files) = 2
    /\ fits_fp(d_catalog[1]) \in DOMAIN fits_files
    /\ \A h \in Pixels : shards[h] = OldShard

----------------------------------------------------------------------------
(* Properties of the catalog builder *)

\* the data lines of the script and the descriptors the build uses
DataLines == SubSeq(sh_file.lines, 2, Len(sh_file.lines))
UsedLines == IF tiny THEN Take(DataLines, TINY_SIZE) ELSE DataLines
IdsOfLines(ls) == {ls[i].tic : i \in 1..Len(ls)}
IdsOfRows(rs) == {rs[i].TIC_ID : i \in 1..Len(rs)}
SomeLineMalformed == \E i \in 1..Len(DataLines) : DataLines[i] \in MalformedLines
Catalog == cat_result.val

\* C8: every row of the catalog returned by create_sector_catalog has a
\* non-null partition key and no two rows have the same identifier, also for
\* scripts and target lists that repeat an identifier.
C8_UniqueIdNonNullKey ==
    cpc = "returned" =>
        /\ \A k \in 1..Len(Catalog) : Catalog[k].healpix \in Nat
        /\ \A k, l \in 1..Len(Catalog) :
              k # l => Catalog[k].TIC_ID # Catalog[l].TIC_ID

C10_ParseFailureIsFatal ==
    (cpc # "start" /\ SomeLineMalformed) =>
        /\ cpc = "raised"
        /\ cat_result.exc \in {"IndexError", "ValueError"}
        /\ cat_result.val = <<>>
        /\ catalog_file = Absent

\* C11: tiny: the catalog is built from the first _TINY_SIZE data lines of the
\* script only, taken in script order before the join: every catalog row
\* comes from one of these lines (an identifier that only later lines name is
\* not in the catalog, and each identifier has one row per pair of a line of
\* the prefix and a target list row that name it).
C11_TinyPrefix ==
    (cpc = "returned" /\ tiny) =>
        LET prefix == SubSeq(DataLines, 1, IF Len(DataLines) < TINY_SIZE
                                           THEN Len(DataLines) ELSE TINY_SIZE)
            rows == csv_file.lines
        IN /\ \A k \in 1..Len(Catalog) : Catalog[k].TIC_ID \in IdsOfLines(prefix)
           /\ \A id \in Ids :
                 Cardinality({k \in 1..Len(Catalog) : Catalog[k].TIC_ID = id})
                   = Cardinality({i \in 1..Len(prefix) : prefix[i].tic = id})
                       * Cardinality({j \in 1..Len(rows) : rows[j].TIC_ID = id})

C11_Witness ==
    /\ cpc = "returned" /\ tiny
    /\ Len(DataLines) > TINY_SIZE
    /\ Len(Catalog) >= 1
    /\ \E i \in (TINY_SIZE + 1)..Len(DataLines) :
          /\ DataLines[i].tic \in IdsOfRows(csv_file.lines)
          /\ DataLines[i].tic \notin IdsOfRows(Catalog)

C10_Witness ==
    /\ cpc = "raised" /\ save_catalog /\ tiny /\ csv_file.exists
    /\ Len(DataLines) > TINY_SIZE
    /\ \A i \in 1..Len(DataLines) :
          DataLines[i] \in MalformedLines <=> i = Len(DataLines)
    /\ \E i \in 1..Len(DataLines) : DataLines[i].tic \in IdsOfRows(csv_file.lines)

====
